---- MODULE Spec2Model ----
(***************************************************************************)
(* Model of quant_interview/data_get.py: generate_quant_dataset().         *)
(*                                                                         *)
(* The procedure loops over stocks x date_range, draws from the seeded     *)
(* global generator, appends one dict per surviving (stock, date) pair to  *)
(* records, builds the frame, writes quant_interview_data.csv, prints the  *)
(* summary and returns the frame.                                          *)
(*                                                                         *)
(* Representation.                                                         *)
(*   - A datetime is its offset in days from start_date (2023-01-01 = 0).  *)
(*     strftime('%Y-%m-%d') is the triple <<year, month, day>>, whose      *)
(*     lexicographic order is the order of the formatted strings.          *)
(*   - A price is a fixed-point number of cents; a product x * (n / d) is  *)
(*     rounded to the nearest cent (FMul), as every float product is       *)
(*     rounded to the nearest double.  np.nan is the value NaN, which      *)
(*     compares unequal to everything, itself included (FEq, FLe).         *)
(*   - np.random.rand() is a number of hundredths, np.random.normal and    *)
(*     np.random.uniform results are taken from the small sets below.      *)
(*     The draws are nondeterministic: the model covers every outcome of   *)
(*     the generator within those sets, not only the outcome of seed 42.   *)
(***************************************************************************)
EXTENDS Integers, Naturals, Sequences, FiniteSets, TLC

VARIABLES
    pc,        \* position in generate_quant_dataset
    si,        \* index into stocks of the outer loop
    di,        \* index into date_range of the inner loop
    records,   \* the list of row dicts (line 24)
    log,       \* history: per executed iteration, the draw of line 29
    drawn,     \* history: per row of records, the base price line 33 drew
    df,        \* the DataFrame built from records (line 106)
    csv,       \* contents of quant_interview_data.csv, <<>> while not written
    stdout,    \* the lines printed so far
    result     \* the value returned by the function

vars == <<pc, si, di, records, log, drawn, df, csv, stdout, result>>

(***************************************************************************)
(* Bounds of the model.                                                    *)
(***************************************************************************)
\* Loop iterations of one run whose draws may differ from the baseline
\* draws (Baseline below); every other iteration draws the baseline.
MaxOffBaseline == 1

(***************************************************************************)
(* Calendar arithmetic (datetime, timedelta, strftime).                    *)
(***************************************************************************)
MonthLen == <<31, 28, 31, 30, 31, 30, 31, 31, 30, 31, 30, 31>>

RECURSIVE DaysBefore(_)
\* days of 2023 before the first day of month m
DaysBefore(m) == IF m = 1 THEN 0 ELSE DaysBefore(m - 1) + MonthLen[m - 1]

FirstOfMonth == [m \in 1..12 |-> DaysBefore(m)]

\* datetime(2023, m, d) as an offset from start_date
Date2023(m, d) == FirstOfMonth[m] + d - 1

\* year, month and day of the date at offset n; offsets below 0 fall in
\* December 2022
Calendar ==
    [n \in -31..364 |->
        IF n < 0 THEN <<2022, 12, 32 + n>>
        ELSE LET m == CHOOSE k \in 1..12 :
                        FirstOfMonth[k] <= n /\ n < FirstOfMonth[k] + MonthLen[k]
             IN  <<2023, m, n - FirstOfMonth[m] + 1>>]

\* date.month
MonthOf(n) == Calendar[n][2]

\* date.strftime('%Y-%m-%d')
StrfTime(n) == Calendar[n]

\* date.weekday(): Monday = 0 ... Sunday = 6; 2023-01-01 is a Sunday
Weekday(n) == (n + 6) % 7

(***************************************************************************)
(* Float arithmetic.                                                       *)
(***************************************************************************)
\* np.nan: a value no price, volume or ratio of the model takes
NaN == -1

\* x * (n / d), rounded to the nearest cent
FMul(x, n, d) == (x * n + d \div 2) \div d

\* a == b on floats
FEq(a, b) == a # NaN /\ b # NaN /\ a = b

\* a <= b on floats
FLe(a, b) == a # NaN /\ b # NaN /\ a <= b

Max(a, b) == IF a >= b THEN a ELSE b
Min(a, b) == IF a <= b THEN a ELSE b

(***************************************************************************)
(* Parameters of the procedure (lines 17-22).                              *)
(***************************************************************************)
start_date == Date2023(1, 1)

\* line 22: the ex-dividend stock first, the delisted stock last; the three
\* stocks between them have no rule of their own and the loop treats them
\* alike, so the model runs one of them.
stocks == <<"600519.SH", "000001.SZ", "688981.SH">>

\* pd.date_range(start_date, end_date, freq='D'), restricted to the days the
\* rules of the loop tell apart: a Sunday of the first quarter, the
\* delisting cutoff (a Thursday), the ex-dividend date (a Saturday) and the
\* shock date (a Sunday), in calendar order.
date_range == <<Date2023(1, 1), Date2023(6, 1), Date2023(7, 1), Date2023(10, 1)>>

DelistDate   == Date2023(6, 1)
DividendDate == Date2023(7, 1)
ShockDate    == Date2023(10, 1)

output_path == "quant_interview_data.csv"

Columns ==
    <<"ts_code", "trade_date", "open", "high", "low", "close", "pre_close", "vol",
      "amount", "report_date", "actual_publish_date", "roe", "pe",
      "is_suspended", "is_limit_up", "is_limit_down">>

(***************************************************************************)
(* The draws of one loop iteration.                                        *)
(***************************************************************************)
ThinDraws    == {30, 31}                 \* rand() of line 29, compared with 0.3
NoiseDraws   == {200}                    \* normal(0, 2), cents
SuspendDraws == {4, 5}                   \* rand() of line 36, compared with 0.05
LimitDraws   == {2, 3}                   \* rand() of lines 39-40, compared with 0.03
ReturnDraws  == {-395, 5, 405}           \* normal(0.0005, 0.02), in 1/10000
OpenDraws    == {0, 50}                  \* uniform(low, high): percent of the range
VolumeDraws  == {100000}                 \* uniform(1e5, 1e7)
LagDraws     == {30, 59}                 \* randint(30, 60): 30 <= n < 60
RoeGateDraws == {11}                     \* rand() of line 84, compared with 0.1
RoeDraws     == {10}                     \* normal(0.1, 0.05), percent
PeDraws      == {30}                     \* uniform(10, 50)

AllDraws ==
    [thin : ThinDraws, noise : NoiseDraws, u_susp : SuspendDraws,
     u_up : LimitDraws, u_down : LimitDraws, daily_ret : ReturnDraws,
     u_open : OpenDraws, volume : VolumeDraws, lag : LagDraws,
     u_roe : RoeGateDraws, roe : RoeDraws, pe : PeDraws]

\* The draws of an ordinary trading row: kept, not suspended, no limit hit.
Baseline ==
    [thin |-> 30, noise |-> 200, u_susp |-> 5, u_up |-> 3, u_down |-> 3,
     daily_ret |-> 5, u_open |-> 50, volume |-> 100000, lag |-> 30,
     u_roe |-> 11, roe |-> 10, pe |-> 30]

\* The draws an iteration can tell apart: the draws of lines 70 and 74,
\* which a suspended or limit-up or limit-down iteration does not make, are
\* fixed to one value there.
Draws ==
    {d \in AllDraws :
        (d.u_susp < 5 \/ d.u_up < 3 \/ d.u_down < 3) =>
            d.daily_ret = Baseline.daily_ret /\ d.u_open = Baseline.u_open}

(***************************************************************************)
(* The rules of the loop body (lines 28-85).                               *)
(***************************************************************************)
\* Thinned with >= for >
Thinned_Ge(date, u) == Weekday(date) >= 5 /\ u >= 30

\* line 29: date.weekday() >= 5 and np.random.rand() > 0.3
Thinned(date, u) == Weekday(date) >= 5 /\ u > 30

\* line 33: 50 + (date - start_date).days * 0.1 + np.random.normal(0, 2)
BasePrice(date, noise) == 5000 + (date - start_date) * 10 + noise

\* lines 36, 39, 40
IsSuspended(u)  == u < 5
IsLimit(u)      == u < 3

\* Delisted with >= for >
Delisted_Ge(stock, date) == stock = "688981.SH" /\ date >= DelistDate

\* line 43
Delisted(stock, date) == stock = "688981.SH" /\ date > DelistDate

\* ExDividend without the test of the stock
ExDividend_AnyStock(stock, date, base_price) ==
    IF date = DividendDate THEN FMul(base_price, 95, 100) ELSE base_price

\* lines 52-53
ExDividend(stock, date, base_price) ==
    IF stock = "600519.SH" /\ date = DividendDate
    THEN FMul(base_price, 95, 100) ELSE base_price

\* Shock without the test of the date
Shock_EveryDay(date, base_price) == FMul(base_price, 7, 10)

\* lines 56-57
Shock(date, base_price) ==
    IF date = ShockDate THEN FMul(base_price, 7, 10) ELSE base_price

\* lines 47-57: the base price recorded as pre_close
AdjustedBase(stock, date, is_suspended, base_price) ==
    IF is_suspended THEN base_price
    ELSE Shock(date, ExDividend(stock, date, base_price))

\* line 48
SuspendedPrices == [open |-> NaN, high |-> NaN, low |-> NaN, close |-> NaN]

\* lines 61-63
LimitUpPrices(base_price) ==
    LET close_price == FMul(base_price, 11, 10)
    IN  [open |-> close_price, high |-> close_price,
         low |-> FMul(close_price, 99, 100), close |-> close_price]

\* lines 65-67
LimitDownPrices(base_price) ==
    LET close_price == FMul(base_price, 9, 10)
    IN  [open |-> close_price, high |-> FMul(close_price, 101, 100),
         low |-> close_price, close |-> close_price]

\* NormalPrices with max and min exchanged
NormalPrices_MinMax(base_price, daily_ret, u_open) ==
    LET close_price == FMul(base_price, 10000 + daily_ret, 10000)
        high_price  == Min(FMul(close_price, 102, 100), FMul(base_price, 103, 100))
        low_price   == Max(FMul(close_price, 98, 100), FMul(base_price, 97, 100))
    IN  [open |-> low_price + FMul(high_price - low_price, u_open, 100),
         high |-> high_price, low |-> low_price, close |-> close_price]

\* lines 70-74
NormalPrices(base_price, daily_ret, u_open) ==
    LET close_price == FMul(base_price, 10000 + daily_ret, 10000)
        high_price  == Max(FMul(close_price, 102, 100), FMul(base_price, 103, 100))
        low_price   == Min(FMul(close_price, 98, 100), FMul(base_price, 97, 100))
    IN  [open |-> low_price + FMul(high_price - low_price, u_open, 100),
         high |-> high_price, low |-> low_price, close |-> close_price]

\* Prices with the limit-down branch tested before the limit-up branch
Prices_DownFirst(is_suspended, is_limit_up, is_limit_down, base_price, daily_ret, u_open) ==
    IF is_suspended THEN SuspendedPrices
    ELSE IF is_limit_down THEN LimitDownPrices(base_price)
    ELSE IF is_limit_up THEN LimitUpPrices(base_price)
    ELSE NormalPrices(base_price, daily_ret, u_open)

\* lines 47-74: open, high, low, close
Prices(is_suspended, is_limit_up, is_limit_down, base_price, daily_ret, u_open) ==
    IF is_suspended THEN SuspendedPrices
    ELSE IF is_limit_up THEN LimitUpPrices(base_price)
    ELSE IF is_limit_down THEN LimitDownPrices(base_price)
    ELSE NormalPrices(base_price, daily_ret, u_open)

\* Volume drawn before the test of the suspension
Volume_Always(is_suspended, v) == v

\* lines 49, 76
Volume(is_suspended, v) == IF is_suspended THEN 0 ELSE v

\* ReportDate without the step back of one day
ReportDate_FirstDay(date) ==
    LET quarter_month == ((MonthOf(date) - 1) \div 3) * 3 + 1
    IN  Date2023(quarter_month, 1)

\* lines 79-80: the day before the first day of the quarter of date
ReportDate(date) ==
    LET quarter_month == ((MonthOf(date) - 1) \div 3) * 3 + 1
    IN  Date2023(quarter_month, 1) - 1

\* line 81
PublishDate(report_date, lag) == report_date + lag

\* line 84
Roe(u, v) == IF u > 10 THEN v ELSE NaN

\* lines 87-104: the dict appended for (stock, date) under the draws d
MakeRow(stock, date, d) ==
    LET is_suspended  == IsSuspended(d.u_susp)
        is_limit_up   == IsLimit(d.u_up)
        is_limit_down == IsLimit(d.u_down)
        base_price    == AdjustedBase(stock, date, is_suspended, BasePrice(date, d.noise))
        p             == Prices(is_suspended, is_limit_up, is_limit_down,
                                base_price, d.daily_ret, d.u_open)
        volume        == Volume(is_suspended, d.volume)
        report_date   == ReportDate(date)
    IN  [ts_code             |-> stock,
         trade_date          |-> StrfTime(date),
         open                |-> p.open,
         high                |-> p.high,
         low                 |-> p.low,
         close               |-> p.close,
         pre_close           |-> base_price,
         vol                 |-> volume,
         amount              |-> IF ~is_suspended THEN volume * p.close ELSE 0,
         report_date         |-> StrfTime(report_date),
         actual_publish_date |-> StrfTime(PublishDate(report_date, d.lag)),
         roe                 |-> Roe(d.u_roe, d.roe),
         pe                  |-> d.pe,
         is_suspended        |-> IF is_suspended THEN 1 ELSE 0,
         is_limit_up         |-> IF is_limit_up THEN 1 ELSE 0,
         is_limit_down       |-> IF is_limit_down THEN 1 ELSE 0]

(***************************************************************************)
(* The loop (lines 26-104).                                                *)
(***************************************************************************)
stock == stocks[si]
date  == date_range[di]

\* iterations so far whose draws were not the baseline draws
OffBaseline == Cardinality({i \in 1..Len(log) : log[i].off})

Budget(off) == OffBaseline + (IF off THEN 1 ELSE 0) <= MaxOffBaseline

\* the draws an iteration may make: any, or the baseline once the run has
\* left it MaxOffBaseline times
DrawsLeft == IF OffBaseline < MaxOffBaseline THEN Draws ELSE {Baseline}

\* the draw of line 29, when the line makes it (`and` short-circuits)
ThinDrawn(u) == IF Weekday(date) >= 5 THEN {u} ELSE {}

\* the next (stock, date) pair; the frame is built when the pairs run out
NextPair ==
    /\ di' = IF di < Len(date_range) THEN di + 1 ELSE 1
    /\ si' = IF di < Len(date_range) THEN si ELSE si + 1
    /\ pc' = IF di = Len(date_range) /\ si = Len(stocks) THEN "frame" ELSE "loop"

\* lines 29-30: a weekend date is dropped
WeekendSkip ==
    /\ pc = "loop"
    /\ \E u \in ThinDraws :
        /\ Thinned(date, u)
        /\ Budget(u # Baseline.thin)
        /\ log' = Append(log, [ts_code |-> stock, day |-> date, thin |-> ThinDrawn(u),
                               off |-> u # Baseline.thin])
    /\ NextPair
    /\ UNCHANGED <<records, drawn, df, csv, stdout, result>>

\* lines 43-44: the delisted stock is dropped; the draws of lines 33-40 are lost
DelistSkip ==
    /\ pc = "loop"
    /\ \E u \in ThinDraws :
        /\ ~Thinned(date, u)
        /\ Delisted(stock, date)
        /\ Budget(FALSE)
        /\ log' = Append(log, [ts_code |-> stock, day |-> date, thin |-> ThinDrawn(u),
                               off |-> FALSE])
    /\ NextPair
    /\ UNCHANGED <<records, drawn, df, csv, stdout, result>>

\* lines 29-104 when neither continue is taken
AppendRow ==
    /\ pc = "loop"
    /\ ~Delisted(stock, date)
    /\ \E d \in DrawsLeft :
        LET row  == MakeRow(stock, date, d)
            off  == d.thin # Baseline.thin \/ d.noise # Baseline.noise
                    \/ row # MakeRow(stock, date, Baseline)
        IN  /\ ~Thinned(date, d.thin)
            \* on a weekday line 29 draws nothing: one value stands for it
            /\ ThinDrawn(d.thin) = {} => d.thin = Baseline.thin
            /\ Budget(off)
            /\ records' = Append(records, row)
            /\ drawn' = Append(drawn, BasePrice(date, d.noise))
            /\ log' = Append(log, [ts_code |-> stock, day |-> date,
                                   thin |-> ThinDrawn(d.thin), off |-> off])
    /\ NextPair
    /\ UNCHANGED <<df, csv, stdout, result>>

(***************************************************************************)
(* After the loop (lines 106-127).                                         *)
(***************************************************************************)
\* line 106
BuildFrame ==
    /\ pc = "frame"
    /\ df' = records
    /\ pc' = "to_csv"
    /\ UNCHANGED <<si, di, records, log, drawn, csv, stdout, result>>

\* a float cell of the file: NaN is written as the empty field
Cell(v) == IF v = NaN THEN <<>> ELSE <<v>>

CsvLine(r) ==
    <<r.ts_code, r.trade_date, Cell(r.open), Cell(r.high), Cell(r.low), Cell(r.close),
      Cell(r.pre_close), Cell(r.vol), Cell(r.amount), r.report_date,
      r.actual_publish_date, Cell(r.roe), Cell(r.pe),
      r.is_suspended, r.is_limit_up, r.is_limit_down>>

\* line 110: the header and one line per row, index=False
ToCsv(frame) == <<Columns>> \o [i \in 1..Len(frame) |-> CsvLine(frame[i])]

WriteCsv ==
    /\ pc = "to_csv"
    /\ csv' = ToCsv(df)
    /\ pc' = "print"
    /\ UNCHANGED <<si, di, records, log, drawn, df, stdout, result>>

\* df[(df.ts_code == code) & (df.is_limit_up == 1)]: positions of the rows
LimitUpRows(frame, code) ==
    {i \in 1..Len(frame) : frame[i].ts_code = code /\ frame[i].is_limit_up = 1}

RowsOf(frame, code) == {i \in 1..Len(frame) : frame[i].ts_code = code}

\* order of the formatted date strings
DateLe(a, b) ==
    \/ a[1] < b[1]
    \/ a[1] = b[1] /\ a[2] < b[2]
    \/ a[1] = b[1] /\ a[2] = b[2] /\ a[3] <= b[3]

MinPublish(frame) ==
    CHOOSE x \in {frame[i].actual_publish_date : i \in 1..Len(frame)} :
        \A i \in 1..Len(frame) : DateLe(x, frame[i].actual_publish_date)

\* Series.max() of the trade dates of code; NaN for no row
MaxTradeDate(frame, code) ==
    IF RowsOf(frame, code) = {} THEN <<NaN>>
    ELSE CHOOSE x \in {frame[i].trade_date : i \in RowsOf(frame, code)} :
            \A i \in RowsOf(frame, code) : DateLe(frame[i].trade_date, x)

Suspensions(frame) == Cardinality({i \in 1..Len(frame) : frame[i].is_suspended = 1})

\* lines 112-114: printed before the lookup of line 115
SummaryHead(frame) ==
    << <<112, Len(frame), output_path>>,
       <<113>>,
       <<114, Suspensions(frame), Len(frame)>> >>

\* lines 115-125; .iloc[0] is the first matching row
SummaryTail(frame) ==
    << <<115, frame[CHOOSE i \in LimitUpRows(frame, "600519.SH") :
                    \A j \in LimitUpRows(frame, "600519.SH") : i <= j].trade_date>>,
       <<116, MinPublish(frame)>>,
       <<117, MaxTradeDate(frame, "688981.SH")>>,
       <<118>>, <<119>>, <<120>>, <<121>>, <<122>>, <<123>>, <<124>>, <<125>> >>

\* lines 112-125; .iloc[0] of an empty selection raises IndexError, which
\* nothing catches: the prints of lines 112-114 have happened, the rest and
\* the return have not
PrintSummary ==
    /\ pc = "print"
    /\ IF LimitUpRows(df, "600519.SH") # {}
       THEN /\ stdout' = SummaryHead(df) \o SummaryTail(df)
            /\ pc' = "return"
       ELSE /\ stdout' = SummaryHead(df)
            /\ pc' = "IndexError"
    /\ UNCHANGED <<si, di, records, log, drawn, df, csv, result>>

\* line 127
Return ==
    /\ pc = "return"
    /\ result' = df
    /\ pc' = "done"
    /\ UNCHANGED <<si, di, records, log, drawn, df, csv, stdout>>

Init ==
    /\ pc = "loop"
    /\ si = 1
    /\ di = 1
    /\ records = <<>>
    /\ log = <<>>
    /\ drawn = <<>>
    /\ df = <<>>
    /\ csv = <<>>
    /\ stdout = <<>>
    /\ result = <<>>

Next ==
    \/ WeekendSkip
    \/ DelistSkip
    \/ AppendRow
    \/ BuildFrame
    \/ WriteCsv
    \/ PrintSummary
    \/ Return

Spec == Init /\ [][Next]_vars

(***************************************************************************)
(* Properties.                                                             *)
(***************************************************************************)
Rows == 1..Len(records)

\* the base price line 33 drew for row i
Base0(i) == drawn[i]

\* the formatted dates the rules name
ShockDay    == StrfTime(ShockDate)
DividendDay == StrfTime(DividendDate)

Suspended(i) == records[i].is_suspended = 1

HasRow(code, day) ==
    LET ymd == StrfTime(day)
    IN  \E i \in Rows : records[i].ts_code = code /\ records[i].trade_date = ymd

\* the iteration of log entry e got past the weekend test of line 29
Survived(e) == Weekday(e.day) < 5 \/ \E u \in e.thin : u <= 30

\* the offset from 2023-01-01 of a formatted date of 2022-12 or 2023
Ordinal(ymd) == IF ymd[1] = 2022 THEN ymd[3] - 32 ELSE FirstOfMonth[ymd[2]] + ymd[3] - 1

\* the last day of the quarter before the quarter of month m of 2023
QuarterEndBefore(m) ==
    IF m <= 3 THEN <<2022, 12, 31>>
    ELSE IF m <= 6 THEN <<2023, 3, 31>>
    ELSE IF m <= 9 THEN <<2023, 6, 30>>
    ELSE <<2023, 9, 30>>

\* C1: every row whose is_suspended flag is 1 has open, high, low and close
\* null and vol 0, whatever its limit-up and limit-down flags, ticker and date.
C1_SuspendedRowsNull ==
    \A i \in Rows :
        Suspended(i) =>
            /\ records[i].open = NaN /\ records[i].high = NaN
            /\ records[i].low = NaN /\ records[i].close = NaN
            /\ records[i].vol = 0

\* C1 witness: a suspended row whose limit-up and limit-down draws came out true
C1_Witness ==
    \E i \in Rows :
        Suspended(i) /\ records[i].is_limit_up = 1 /\ records[i].is_limit_down = 1

\* C2 as stated: every row whose is_limit_up flag is 1 has close equal to open
\* and to high, the suspended rows included.
C2_LimitUpCloseEqual ==
    \A i \in Rows :
        records[i].is_limit_up = 1 =>
            /\ FEq(records[i].close, records[i].open)
            /\ FEq(records[i].close, records[i].high)

\* C2 amended: every row whose is_limit_up flag is 1 and whose is_suspended
\* flag is 0 has close equal to open and to high, also when its limit-down
\* flag is 1; a suspended row with the flag has null prices, equal to nothing.
C2_LimitUpCloseEqualUnlessSuspended ==
    \A i \in Rows :
        records[i].is_limit_up = 1 =>
            IF Suspended(i)
            THEN /\ ~FEq(records[i].close, records[i].open)
                 /\ ~FEq(records[i].close, records[i].high)
            ELSE /\ FEq(records[i].close, records[i].open)
                 /\ FEq(records[i].close, records[i].high)

\* C2 witness: a trading row with both limit flags set
C2_Witness ==
    \E i \in Rows :
        ~Suspended(i) /\ records[i].is_limit_up = 1 /\ records[i].is_limit_down = 1

\* the rows of other dates carry the drawn base price, or 0.95 times it
NoShockElsewhere ==
    \A i \in Rows :
        records[i].trade_date # ShockDay =>
            records[i].pre_close \in {Base0(i), FMul(Base0(i), 95, 100)}

\* C3 as stated: every row dated 2023-10-01 has pre_close equal to 0.7 times
\* the base price drawn for it, and no row of another date has the factor.
C3_ShockAllRows ==
    /\ \A i \in Rows :
        records[i].trade_date = ShockDay =>
            records[i].pre_close = FMul(Base0(i), 7, 10)
    /\ NoShockElsewhere

\* C3 amended: every row dated 2023-10-01 that is not suspended has pre_close
\* equal to 0.7 times the base price drawn for it; a suspended row of that
\* date keeps the drawn base price; no row of another date has the factor.
C3_ShockTradingRows ==
    /\ \A i \in Rows :
        records[i].trade_date = ShockDay =>
            records[i].pre_close =
                IF Suspended(i) THEN Base0(i) ELSE FMul(Base0(i), 7, 10)
    /\ NoShockElsewhere

\* C3 witness: the table is complete and two tickers have a trading row on
\* the shock date
C3_Witness ==
    /\ pc = "done"
    /\ \E i, j \in Rows :
        /\ records[i].ts_code # records[j].ts_code
        /\ records[i].trade_date = ShockDay /\ ~Suspended(i)
        /\ records[j].trade_date = ShockDay /\ ~Suspended(j)

IsDividendRow(i) ==
    records[i].ts_code = "600519.SH" /\ records[i].trade_date = DividendDay

\* the other rows carry the drawn base price, or 0.7 times it
NoDividendElsewhere ==
    \A i \in Rows :
        ~IsDividendRow(i) =>
            records[i].pre_close \in {Base0(i), FMul(Base0(i), 7, 10)}

\* C4 as stated: a row of 600519.SH dated 2023-07-01 has pre_close equal to
\* 0.95 times the base price drawn for it, and no other row has the factor.
C4_DividendWheneverPresent ==
    /\ \A i \in Rows :
        IsDividendRow(i) => records[i].pre_close = FMul(Base0(i), 95, 100)
    /\ NoDividendElsewhere

\* C4 amended: a row of 600519.SH dated 2023-07-01 that is not suspended has
\* pre_close equal to 0.95 times the base price drawn for it; when it is
\* suspended it keeps the drawn base price; no other row has the factor.
C4_DividendTradingRow ==
    /\ \A i \in Rows :
        IsDividendRow(i) =>
            records[i].pre_close =
                IF Suspended(i) THEN Base0(i) ELSE FMul(Base0(i), 95, 100)
    /\ NoDividendElsewhere

\* C4 witness: the ex-dividend row is a trading row, next to a row of another
\* ticker of the same date
C4_Witness ==
    \E i, j \in Rows :
        /\ IsDividendRow(i) /\ ~Suspended(i)
        /\ records[j].ts_code # "600519.SH"
        /\ records[j].trade_date = DividendDay

\* C5: no row of 688981.SH is dated after 2023-06-01, and the delisting rule
\* removes nothing else: an iteration past the weekend test has its row when
\* the stock is another one or the date is 2023-06-01 or earlier.
C5_DelistedAfterCutoffOnly ==
    /\ \A i \in Rows :
        records[i].ts_code = "688981.SH" =>
            DateLe(records[i].trade_date, <<2023, 6, 1>>)
    /\ \A k \in 1..Len(log) :
        (Survived(log[k]) /\ (log[k].ts_code # "688981.SH" \/ log[k].day <= Date2023(6, 1)))
            => HasRow(log[k].ts_code, log[k].day)

\* C5 witness: 688981.SH has its row of 2023-06-01 and an iteration of a
\* later date is behind it
C5_Witness ==
    /\ HasRow("688981.SH", Date2023(6, 1))
    /\ \E k \in 1..Len(log) :
        log[k].ts_code = "688981.SH" /\ log[k].day > Date2023(6, 1)

\* C6: (ts_code, trade_date) is a unique key, and a pair the loop has passed
\* has a row exactly when its date got past the weekend test and the pair is
\* not 688981.SH after 2023-06-01.
C6_UniqueKeyAndExistence ==
    /\ \A i, j \in Rows :
        (records[i].ts_code = records[j].ts_code
            /\ records[i].trade_date = records[j].trade_date) => i = j
    /\ \A k \in 1..Len(log) :
        HasRow(log[k].ts_code, log[k].day)
            <=> /\ Survived(log[k])
                /\ ~(log[k].ts_code = "688981.SH" /\ log[k].day > Date2023(6, 1))

\* C6 witness: the loop is over, one weekend date was thinned out for a ticker
\* and kept for another
C6_Witness ==
    /\ pc # "loop"
    /\ \E k, l \in 1..Len(log) :
        /\ log[k].day = log[l].day
        /\ log[k].thin = {31} /\ ~HasRow(log[k].ts_code, log[k].day)
        /\ log[l].thin = {30} /\ HasRow(log[l].ts_code, log[l].day)

\* C7: report_date is the last day of the quarter before the quarter of
\* trade_date, and actual_publish_date is 30 to 59 days after report_date.
C7_ReportAndPublishDates ==
    \A i \in Rows :
        /\ records[i].report_date = QuarterEndBefore(records[i].trade_date[2])
        /\ Ordinal(records[i].actual_publish_date) - Ordinal(records[i].report_date)
              \in 30..59

\* C7 witness: a row of the first quarter, whose report date is in 2022, is
\* published 59 days later, next to a row published 30 days later
C7_Witness ==
    \E i, j \in Rows :
        /\ records[i].report_date = <<2022, 12, 31>>
        /\ Ordinal(records[i].actual_publish_date) - Ordinal(records[i].report_date) = 59
        /\ Ordinal(records[j].actual_publish_date) - Ordinal(records[j].report_date) = 30

\* C9: the run collects the rows, writes the file, prints the whole summary
\* and returns the table; the summary completes for every table, and nothing
\* is printed before the file is written.
C9_RunCompletes ==
    /\ pc \in {"loop", "frame", "to_csv", "print", "return", "done"}
    /\ stdout # <<>> => csv = ToCsv(records)
    /\ pc \in {"return", "done"} => Len(stdout) = 14
    /\ pc = "done" => result = records

\* C10: a row that is not suspended and has a positive base price has
\* low <= open <= high and low <= close <= high.
C10_PricesOrdered ==
    \A i \in Rows :
        (~Suspended(i) /\ records[i].pre_close > 0) =>
            /\ FLe(records[i].low, records[i].open)
            /\ FLe(records[i].open, records[i].high)
            /\ FLe(records[i].low, records[i].close)
            /\ FLe(records[i].close, records[i].high)

\* C10 witness: a normal row of the shock date that opens at its low, with
\* the low set by the close and below 0.97 times the base price
C10_Witness ==
    \E i \in Rows :
        /\ ~Suspended(i) /\ records[i].is_limit_up = 0 /\ records[i].is_limit_down = 0
        /\ records[i].trade_date = ShockDay
        /\ records[i].open = records[i].low
        /\ records[i].low < FMul(records[i].pre_close, 97, 100)

====
